---- MODULE Spec2Model ----
(***************************************************************************)
(* A model of ai-services/ai_services.py: TextPreprocessor, NewsSummarizer *)
(* and SentimentAnalyzer, their construction in ai-services/app.py and its *)
(* batch_process handler.  Texts are sequences of one-character strings;   *)
(* the pretrained models and the NLTK tokenizer are collaborators whose    *)
(* outcome (a value or an exception) is chosen nondeterministically per    *)
(* call.  Sentiment scores are integers in thousandths (0.1 is 100).       *)
(***************************************************************************)
EXTENDS Integers, Sequences, FiniteSets, TLC

VARIABLES
    summarizer_pipeline,  \* NewsSummarizer.summarizer_pipeline: "None" or "loaded"
    sentiment_pipeline,   \* SentimentAnalyzer.sentiment_pipeline: "None" or "loaded"
    nlp,                  \* TextPreprocessor.nlp: "None" or "loaded"
    stop_words,           \* TextPreprocessor.stop_words: a set of words
    op,                   \* the method whose call has just returned, or "idle"
    args,                 \* the arguments of that call
    ret,                  \* what the call returned, or Raised
    stages,               \* the stages the call ran, in order, each with its outcome
    collab                \* the collaborator invocations the call made, in order

vars ==
    <<summarizer_pipeline, sentiment_pipeline, nlp, stop_words, op, args, ret, stages, collab>>

(***************************************************************************)
(* Python values                                                           *)
(***************************************************************************)
Str(cs) == [kind |-> "str", chars |-> cs, num |-> 0]
NoneV == [kind |-> "none", chars |-> <<>>, num |-> 0]
IntV(n) == [kind |-> "int", chars |-> <<>>, num |-> n]
Raised == [kind |-> "raise", chars |-> <<>>, num |-> 0]

\* Python truthiness: `not text`
Falsy(v) ==
    \/ v.kind = "none"
    \/ v.kind = "str" /\ v.chars = <<>>
    \/ v.kind = "int" /\ v.num = 0

Min(a, b) == IF a < b THEN a ELSE b

(***************************************************************************)
(* str methods                                                             *)
(***************************************************************************)
Whitespace == {" ", "\t"}

IsSpace(c) == c \in Whitespace

\* the least and the greatest j of lo..hi that is in S, 0 when there is none
Least(lo, hi, S) ==
    IF \E j \in lo..hi : j \in S
    THEN CHOOSE j \in lo..hi : j \in S /\ \A k \in lo..(j - 1) : k \notin S
    ELSE 0

Greatest(lo, hi, S) ==
    IF \E j \in lo..hi : j \in S
    THEN CHOOSE j \in lo..hi : j \in S /\ \A k \in (j + 1)..hi : k \notin S
    ELSE 0

\* str.strip()
Strip(s) ==
    LET NonSpace(i) == ~IsSpace(s[i])
    IN  IF \E i \in 1..Len(s) : NonSpace(i)
        THEN SubSeq(s, Least(1, Len(s), {i \in 1..Len(s) : NonSpace(i)}),
                       Greatest(1, Len(s), {i \in 1..Len(s) : NonSpace(i)}))
        ELSE <<>>

\* the last index of the whitespace-free run that position i is in
RunEnd(s, i) ==
    LET Stop(j) == j = Len(s) \/ IsSpace(s[j + 1])
    IN  Least(i, Len(s), {j \in i..Len(s) : Stop(j)})

\* the first index of the whitespace-free run that position i is in
RunStart(s, i) ==
    LET Start(j) == j = 1 \/ IsSpace(s[j - 1])
    IN  Greatest(1, i, {j \in 1..i : Start(j)})

\* str.split(): the maximal whitespace-free runs, in order; the k-th run goes
\* from the k-th position that starts one to the k-th position that ends one
Split(s) ==
    LET n == Len(s)
        starts == SelectSeq([i \in 1..n |-> i],
                            LAMBDA i : ~IsSpace(s[i]) /\ (i = 1 \/ IsSpace(s[i - 1])))
        ends == SelectSeq([i \in 1..n |-> i],
                          LAMBDA i : ~IsSpace(s[i]) /\ (i = n \/ IsSpace(s[i + 1])))
    IN  [k \in 1..Len(starts) |-> SubSeq(s, starts[k], ends[k])]

RECURSIVE JoinRange(_, _, _, _)
JoinRange(words, sep, lo, hi) ==
    IF lo > hi THEN <<>>
    ELSE IF lo = hi THEN words[lo]
    ELSE LET mid == (lo + hi) \div 2
         IN  JoinRange(words, sep, lo, mid) \o sep \o JoinRange(words, sep, mid + 1, hi)

\* sep.join(words)
Join(words, sep) == JoinRange(words, sep, 1, Len(words))

\* words[:n]
Take(seq, n) == SubSeq(seq, 1, Min(n, Len(seq)))

\* s without the positions in gone
Without(s, gone) ==
    SelectSeq([i \in 1..Len(s) |-> IF i \in gone THEN "" ELSE s[i]], LAMBDA c : c # "")

(***************************************************************************)
(* SentimentAnalyzer                                                       *)
(***************************************************************************)
PosThreshold == 100
NegThreshold == -100
NeutralConfidence == 500
SentimentMaxWords == 512
SentimentMinWords == 2

Sentiment(l, c, s) == [kind |-> "sentiment", label |-> l, score |-> c, sentiment_score |-> s]

NeutralDefault == Sentiment("NEUTRAL", NeutralConfidence, 0)

\* str.upper() on the labels a classifier returns
Upper(l) ==
    CASE l = "positive" -> "POSITIVE"
      [] l = "negative" -> "NEGATIVE"
      [] l = "neutral" -> "NEUTRAL"
      [] OTHER -> l

\* lines 288-294: the raw label and confidence as a signed score
SignedScore(label, score) ==
    IF label = "POSITIVE" THEN score
    ELSE IF label = "NEGATIVE" THEN -score
    ELSE 0

\* FinalLabel with the thresholds themselves counted as POSITIVE and NEGATIVE
FinalLabelInclusive(sentiment_score) ==
    IF sentiment_score >= PosThreshold THEN "POSITIVE"
    ELSE IF sentiment_score <= NegThreshold THEN "NEGATIVE"
    ELSE "NEUTRAL"

\* lines 296-303: the final label, from the signed score alone
FinalLabel(sentiment_score) ==
    IF sentiment_score > PosThreshold THEN "POSITIVE"
    ELSE IF sentiment_score < NegThreshold THEN "NEGATIVE"
    ELSE "NEUTRAL"

\* lines 283-309: the result read from the classifier's answer `out`
ProcessResult(out) ==
    LET label == Upper(out.label)
        sentiment_score == SignedScore(label, out.score)
        final_label == FinalLabel(sentiment_score)
    IN  Sentiment(final_label,
                  IF final_label = "NEUTRAL" THEN NeutralConfidence ELSE out.score,
                  sentiment_score)

\* lines 274-278: the text handed to the classifier
SentimentInput(cleaned_text) ==
    LET words == Split(cleaned_text)
    IN  IF Len(words) > SentimentMaxWords
        THEN Join(Take(words, SentimentMaxWords), <<" ">>)
        ELSE cleaned_text

\* line 256: the guard in front of the try block
AnalyzeGuard(text, pipeline) == Falsy(text) \/ pipeline = "None"

\* TooShortToAnalyze that lets a single word through
TooShortToAnalyzeEmptyOnly(cleaned_text) == Len(Split(cleaned_text)) < 1

\* line 267: too short to classify
TooShortToAnalyze(cleaned_text) == Len(Split(cleaned_text)) < SentimentMinWords

\* SentimentAnalyzer.analyze with the classifier answering `out`:
\* [ret: the result, calls: the classifier invocations made]
analyze(text, pipeline, out) ==
    IF AnalyzeGuard(text, pipeline)
    THEN [ret |-> NeutralDefault, calls |-> <<>>]
    ELSE IF text.kind # "str"
    THEN [ret |-> NeutralDefault, calls |-> <<>>]   \* text.strip() raises, caught at 311
    ELSE LET cleaned_text == Strip(text.chars)
         IN  IF TooShortToAnalyze(cleaned_text)
             THEN [ret |-> NeutralDefault, calls |-> <<>>]
             ELSE LET call == [input |-> SentimentInput(cleaned_text), out |-> out]
                  IN  IF out.kind = "ok"
                      THEN [ret |-> ProcessResult(out), calls |-> <<call>>]
                      ELSE [ret |-> NeutralDefault, calls |-> <<call>>]

(***************************************************************************)
(* NewsSummarizer                                                          *)
(***************************************************************************)
SummaryMinWords == 10
SummaryMaxWords == 1024
DefaultMaxLength == 150
DefaultMinLength == 50
DefaultMaxSentences == 3
TruncateChars == 200

\* line 166: "Unable to generate summary."
Sentinel ==
    <<"U", "n", "a", "b", "l", "e", " ", "t", "o", " ", "g", "e", "n", "e", "r", "a", "t", "e",
      " ", "s", "u", "m", "m", "a", "r", "y", ".">>

Ellipsis == <<".", ".", ".">>

SentenceEnd == {".", "!", "?"}

\* the last index of the sentence that starts at i
SentenceStop(s, i) ==
    LET Stop(j) == j = Len(s) \/ (s[j] \in SentenceEnd /\ IsSpace(s[j + 1]))
    IN  Least(i, Len(s), {j \in i..Len(s) : Stop(j)})

RECURSIVE SentencesFrom(_, _)
SentencesFrom(s, i) ==
    IF i > Len(s) THEN <<>>
    ELSE IF IsSpace(s[i]) THEN SentencesFrom(s, i + 1)
    ELSE LET e == SentenceStop(s, i)
         IN  <<SubSeq(s, i, e)>> \o SentencesFrom(s, e + 1)

\* nltk.tokenize.sent_tokenize (line 202): the text cut after each sentence-ending
\* mark that whitespace follows
sent_tokenize(s) == SentencesFrom(s, 1)

\* line 210, times ten: len(sentence.split()) + (len(sentences) - i) * 0.1, i from 0
SentenceScore(sentences, k) ==
    10 * Len(Split(sentences[k])) + (Len(sentences) - (k - 1))

\* line 214: the position, from 0, after the stable descending sort of the
\* sentence whose score is score[k]
SentenceRank(score, k) ==
    Cardinality({j \in 1..Len(score) :
                    \/ score[j] > score[k]
                    \/ score[j] = score[k] /\ j < k})

\* lines 208-215: the max_sentences best sentences, best first
TopSentences(sentences, max_sentences) ==
    LET n == Len(sentences)
        score == SubSeq([k \in 1..n |-> SentenceScore(sentences, k)], 1, n)
        rank == SubSeq([k \in 1..n |-> SentenceRank(score, k)], 1, n)
    IN  [r \in 1..Min(max_sentences, n) |->
            sentences[CHOOSE k \in 1..n : rank[k] = r - 1]]

\* line 221: text[:200] + "..." if len(text) > 200 else text
Truncated(chars) ==
    IF Len(chars) > TruncateChars THEN SubSeq(chars, 1, TruncateChars) \o Ellipsis ELSE chars

\* _extractive_summary whose handler is a `finally`: the truncation runs whether
\* or not the extractive stage raised
extractive_summary_finally(text, max_sentences, tokOK) ==
    [ret |-> IF text.kind = "str" THEN Str(Truncated(text.chars)) ELSE Raised,
     stages |-> <<[stage |-> "extractive",
                   outcome |-> IF text.kind = "str" /\ tokOK THEN "returned" ELSE "raised"],
                  [stage |-> "truncation",
                   outcome |-> IF text.kind = "str" THEN "returned" ELSE "raised"]>>]

\* lines 198-221, NewsSummarizer._extractive_summary; tokOK: sent_tokenize does not raise
\* [ret, stages]
extractive_summary(text, max_sentences, tokOK) ==
    IF text.kind = "str" /\ tokOK
    THEN LET sentences == sent_tokenize(text.chars)
         IN  [ret |-> IF Len(sentences) <= max_sentences
                      THEN text
                      ELSE Str(Join(TopSentences(sentences, max_sentences), <<" ">>)),
              stages |-> <<[stage |-> "extractive", outcome |-> "returned"]>>]
    ELSE \* sent_tokenize raised: the handler at 219-221
         IF text.kind = "str"
         THEN [ret |-> Str(Truncated(text.chars)),
               stages |-> <<[stage |-> "extractive", outcome |-> "raised"],
                            [stage |-> "truncation", outcome |-> "returned"]>>]
         ELSE \* len(text) raises inside the handler
              [ret |-> Raised,
               stages |-> <<[stage |-> "extractive", outcome |-> "raised"],
                            [stage |-> "truncation", outcome |-> "raised"]>>]

\* SummarizeGuard with `and` for `or`
SummarizeGuardBoth(text, pipeline) == Falsy(text) /\ pipeline = "None"

\* line 165: the guard in front of the try block
SummarizeGuard(text, pipeline) == Falsy(text) \/ pipeline = "None"

\* TooShortToSummarize with the threshold one lower
TooShortToSummarizeNine(cleaned_text) == Len(Split(cleaned_text)) < SummaryMinWords - 1

\* line 173: too short to summarize
TooShortToSummarize(cleaned_text) == Len(Split(cleaned_text)) < SummaryMinWords

\* SummaryInput without the cap
SummaryInputUncapped(cleaned_text) == cleaned_text

\* lines 176-180: the text handed to the generative model
SummaryInput(cleaned_text) ==
    LET words == Split(cleaned_text)
    IN  IF Len(words) > SummaryMaxWords
        THEN Join(Take(words, SummaryMaxWords), <<" ">>)
        ELSE cleaned_text

\* line 196: what the except handler passes as max_sentences
FallbackSentences(max_length) == max_length

\* lines 163-196, NewsSummarizer.summarize, with the generative model answering `gen`
\* [ret, stages, calls]
summarize(text, max_length, min_length, pipeline, gen, tokOK) ==
    IF SummarizeGuard(text, pipeline)
    THEN [ret |-> Str(Sentinel), stages |-> <<>>, calls |-> <<>>]
    ELSE IF text.kind # "str"
    THEN \* text.strip() raises inside the try block
         LET fb == extractive_summary(text, FallbackSentences(max_length), tokOK)
         IN  [ret |-> fb.ret,
              stages |-> <<[stage |-> "primary", outcome |-> "raised"]>> \o fb.stages,
              calls |-> <<>>]
    ELSE LET cleaned_text == Strip(text.chars)
         IN  IF TooShortToSummarize(cleaned_text)
             THEN [ret |-> Str(cleaned_text),
                   stages |-> <<[stage |-> "primary", outcome |-> "returned"]>>,
                   calls |-> <<>>]
             ELSE LET call == [input |-> SummaryInput(cleaned_text),
                               max_length |-> max_length, min_length |-> min_length,
                               out |-> gen]
                  IN  IF gen.kind = "ok"
                      THEN [ret |-> Str(Strip(gen.chars)),
                            stages |-> <<[stage |-> "primary", outcome |-> "returned"]>>,
                            calls |-> <<call>>]
                      ELSE LET fb == extractive_summary(text, FallbackSentences(max_length), tokOK)
                           IN  [ret |-> fb.ret,
                                stages |-> <<[stage |-> "primary", outcome |-> "raised"]>>
                                           \o fb.stages,
                                calls |-> <<call>>]

(***************************************************************************)
(* SentimentAnalyzer.batch_analyze                                         *)
(***************************************************************************)
\* BatchCollect that inserts at the front
BatchCollectFront(results, result) == <<result>> \o results

\* lines 326 and 329: results.append(...)
BatchCollect(results, result) == Append(results, result)

RECURSIVE BatchFrom(_, _, _, _, _)
\* lines 323-333: the loop from item i on; acc is [results, calls]
BatchFrom(texts, pipeline, outs, i, acc) ==
    IF i > Len(texts) THEN acc
    ELSE LET r == analyze(texts[i], pipeline, outs[i])
             result == IF r.ret.kind = "raise" THEN NeutralDefault ELSE r.ret
             calls == [k \in 1..Len(r.calls) |->
                          [item |-> i, input |-> r.calls[k].input, out |-> r.calls[k].out]]
         IN  BatchFrom(texts, pipeline, outs, i + 1,
                       [results |-> BatchCollect(acc.results, result),
                        calls |-> acc.calls \o calls])

\* lines 319-335, SentimentAnalyzer.batch_analyze; outs[i] is the classifier's answer
\* should item i reach it
batch_analyze(texts, pipeline, outs) ==
    BatchFrom(texts, pipeline, outs, 1, [results |-> <<>>, calls |-> <<>>])

(***************************************************************************)
(* TextPreprocessor.clean_text                                             *)
(***************************************************************************)
Letters == {"a", "h", "p", "s", "t", "H"}

\* the characters [^\w\s\.\,\!\?\;\:\-] leaves in place (line 71)
AllowedChars == Letters \cup Whitespace \cup {".", ",", "!", "?", ";", ":", "-"}

\* the characters one step of the URL pattern's group accepts (line 62):
\* [a-zA-Z], [0-9], [$-_@.&+] (the range $ to _ and @ . & +), [!*\\(\\),]
UrlChars ==
    Letters \cup
    {"$", "%", "&", "'", "(", ")", "*", "+", ",", "-", ".", "/", ":", ";", "<", "=", ">", "?",
     "@", "[", "\\", "]", "^", "_", "!"}

HttpPrefix == <<"h", "t", "t", "p", ":", "/", "/">>
HttpsPrefix == <<"h", "t", "t", "p", "s", ":", "/", "/">>

StartsWith(s, i, lit) ==
    /\ i + Len(lit) - 1 <= Len(s)
    /\ SubSeq(s, i, i + Len(lit) - 1) = lit

\* lit in s
Contains(s, lit) == \E i \in 1..Len(s) : StartsWith(s, i, lit)

\* the end of the match of <[^>]+> at i: the first > after i, when at least one
\* character stands between; 0 when the pattern does not match at i
TagEnd(s, i) ==
    LET Close(j) == s[j] = ">"
        close == Least(i + 1, Len(s), {j \in (i + 1)..Len(s) : Close(j)})
    IN  IF s[i] = "<" /\ close >= i + 2 THEN close ELSE 0

\* line 59: re.sub(r'<[^>]+>', '', text).  A match that would start inside an
\* earlier one ends where that one ends, so the matches of the left-to-right scan
\* cover the positions that the matches at all positions cover.
RemoveTags(s) ==
    LET end == [i \in 1..Len(s) |-> TagEnd(s, i)]
    IN  Without(s, {p \in 1..Len(s) : \E i \in 1..p : end[i] >= p})

\* where the URL pattern's group starts for a match at i, 0 when http[s]?:// does not match
UrlBodyStart(s, i) ==
    IF StartsWith(s, i, HttpsPrefix) THEN i + Len(HttpsPrefix)
    ELSE IF StartsWith(s, i, HttpPrefix) THEN i + Len(HttpPrefix)
    ELSE 0

\* the end of the match of the URL pattern at i: the prefix, then the longest run
\* of URL characters, at least one; 0 when the pattern does not match at i
UrlEnd(s, i) ==
    LET b == UrlBodyStart(s, i)
        Stop(j) == j = Len(s) \/ s[j + 1] \notin UrlChars
    IN  IF b # 0 /\ b <= Len(s) /\ s[b] \in UrlChars 
        THEN Least(b, Len(s), {j \in b..Len(s) : Stop(j)})
        ELSE 0

\* line 62: re.sub(r'http[s]?://(?:...)+', '', text).  The prefix is made of URL
\* characters, so a match that would start inside an earlier one ends with it.
RemoveUrls(s) ==
    LET end == [i \in 1..Len(s) |-> UrlEnd(s, i)]
    IN  Without(s, {p \in 1..Len(s) : \E i \in 1..p : end[i] >= p})

\* line 65: re.sub(r'\S+@\S+', '', text): a whitespace-free run with an @ inside it
\* (a character before it and one after it) is matched whole
RemoveEmails(s) ==
    Without(s, {p \in 1..Len(s) :
                   /\ ~IsSpace(s[p])
                   /\ \E k \in (RunStart(s, p) + 1)..(RunEnd(s, p) - 1) : s[k] = "@"})

\* line 68: re.sub(r'\s+', ' ', text).strip(): each whitespace run becomes one space
CollapseWhitespace(s) ==
    Strip(Without([i \in 1..Len(s) |-> IF IsSpace(s[i]) THEN " " ELSE s[i]],
                  {p \in 2..Len(s) : IsSpace(s[p]) /\ IsSpace(s[p - 1])}))

\* FilterChars with / < > among the characters kept
FilterCharsKeepingMarkup(s) == SelectSeq(s, LAMBDA c : c \in AllowedChars \cup {"/", "<", ">"})

\* line 71: re.sub(r'[^\w\s\.\,\!\?\;\:\-]', '', text)
FilterChars(s) == SelectSeq(s, LAMBDA c : c \in AllowedChars)

\* lines 53-73, TextPreprocessor.clean_text
clean_text(text) ==
    IF Falsy(text) \/ text.kind # "str" THEN Str(<<>>)
    ELSE Str(FilterChars(CollapseWhitespace(RemoveEmails(RemoveUrls(RemoveTags(text.chars))))))

(***************************************************************************)
(* TextPreprocessor.extract_keywords and extract_sentences                 *)
(***************************************************************************)
DefaultMaxKeywords == 10
MinSentenceChars == 10
MinKeywordChars == 2

\* str.lower()
LowerChar(c) == IF c = "H" THEN "h" ELSE c
Lower(s) == [i \in 1..Len(s) |-> LowerChar(s[i])]

\* stopwords.words('english') (line 40), those the letters of the model can spell
EnglishStopwords ==
    {<<"a">>, <<"s">>, <<"t">>, <<"a", "s">>, <<"a", "t">>, <<"h", "a", "s">>,
     <<"t", "h", "a", "t">>}

LowerWords(words) == [i \in 1..Len(words) |-> Lower(words[i])]

\* the distinct members of words, in the order they first appear
FirstSeen(words) ==
    SelectSeq([i \in 1..Len(words) |->
                  IF \E j \in 1..(i - 1) : words[j] = words[i] THEN <<>> ELSE <<words[i]>>],
              LAMBDA w : w # <<>>)

Count(words, w) == Cardinality({i \in 1..Len(words) : words[i] = w})

\* MostCommon without the counting: the first n distinct words as they come
MostCommonFirstSeen(words, n) ==
    [r \in 1..Min(n, Len(FirstSeen(words))) |-> FirstSeen(words)[r][1]]

\* Counter(words).most_common(n): descending count, ties in first-seen order
MostCommon(words, n) ==
    LET keys == [i \in 1..Len(FirstSeen(words)) |-> FirstSeen(words)[i][1]]
        rank(k) == Cardinality({j \in 1..Len(keys) :
                        \/ Count(words, keys[j]) > Count(words, keys[k])
                        \/ Count(words, keys[j]) = Count(words, keys[k]) /\ j < k})
    IN  [r \in 1..Min(n, Len(keys)) |-> keys[CHOOSE k \in 1..Len(keys) : rank(k) = r - 1]]

\* line 104: not a stopword and longer than two characters
KeepWord(word) == word \notin stop_words /\ Len(word) > MinKeywordChars

\* lines 75-109, TextPreprocessor.extract_keywords.  The toolkit's tokens are the
\* whitespace-separated words, each its own lemma and a stopword when its lower
\* case is one; tagged: it tags them as nouns (otherwise as a part of speech that
\* lines 89-92 drop)
extract_keywords(text, max_keywords, toolkit, tagged) ==
    IF Falsy(text) THEN <<>>
    ELSE LET cleaned_text == clean_text(text).chars
         IN  IF toolkit = "loaded"
             THEN IF tagged
                  THEN MostCommon(SelectSeq(LowerWords(Split(cleaned_text)), KeepWord),
                                  max_keywords)
                  ELSE <<>>
             ELSE MostCommon(SelectSeq(Split(Lower(cleaned_text)), KeepWord), max_keywords)

\* line 120 and line 125: the sentences whose trimmed length exceeds 10
LongSentences(sentences) ==
    SelectSeq([i \in 1..Len(sentences) |-> Strip(sentences[i])],
              LAMBDA sent : Len(sent) > MinSentenceChars)

\* lines 111-125, TextPreprocessor.extract_sentences; tokOK: sent_tokenize does not
\* raise; the toolkit's doc.sents cuts the text as sent_tokenize does.
\* [ret, calls: the sent_tokenize calls made]
extract_sentences(text, toolkit, tokOK) ==
    IF Falsy(text) THEN [ret |-> <<>>, calls |-> <<>>]
    ELSE LET cleaned_text == clean_text(text).chars
         IN  IF toolkit = "loaded"
             THEN [ret |-> LongSentences(sent_tokenize(cleaned_text)), calls |-> <<>>]
             ELSE IF tokOK
             THEN [ret |-> LongSentences(sent_tokenize(cleaned_text)),
                   calls |-> <<[input |-> cleaned_text, out |-> [kind |-> "ok"]]>>]
             ELSE [ret |-> Raised,
                   calls |-> <<[input |-> cleaned_text, out |-> [kind |-> "raise"]]>>]

(***************************************************************************)
(* app.py: batch_process                                                   *)
(***************************************************************************)
\* a JSON object with or without the keys 'text' and 'title'
Dict(has_text, text, has_title, title) ==
    [kind |-> "dict", val |-> NoneV, has_text |-> has_text, text |-> text,
     has_title |-> has_title, title |-> title]

\* an entry of the articles array that is no object
NonDict(v) ==
    [kind |-> v.kind, val |-> v, has_text |-> FALSE, text |-> NoneV,
     has_title |-> FALSE, title |-> NoneV]

TextKey == <<"t", "e", "x", "t">>

Digits == <<"1", "2", "3", "4", "5", "6", "7", "8", "9">>

\* f'Article {i+1}', i from 0 (here from 1)
DefaultTitle(i) == Str(<<"A", "r", "t", "i", "c", "l", "e", " ", Digits[i]>>)

\* line 128, 'text' in article: a key of an object, a substring of a string, a
\* TypeError for a number or null
KeyIn(article) ==
    CASE article.kind = "dict" -> IF article.has_text THEN "yes" ELSE "no"
      [] article.kind = "str" -> IF Contains(article.val.chars, TextKey) THEN "yes" ELSE "no"
      [] OTHER -> "raise"

\* lines 132 and 154: article.get('title', f'Article {i+1}'), of an object
GetTitle(article, i) == IF article.has_title THEN article.title ELSE DefaultTitle(i)

\* lines 141-150
ResultRecord(title, summary, sentiment, word_count) ==
    [kind |-> "result", title |-> title, summary |-> summary,
     sentiment |-> [label |-> sentiment.label, confidence |-> sentiment.score,
                    sentiment_score |-> sentiment.sentiment_score],
     word_count |-> word_count]

\* lines 153-156
ErrorRecord(title, error) == [kind |-> "error", title |-> title, error |-> error]

\* lines 141-156: the record appended for an article whose summary is s and whose
\* sentiment is a ([ret, calls] each), or the error record when the summary
\* raised or text.split() at line 149 does, text being no string
ArticleRecord(text, title, i, s, a) ==
    IF s.ret.kind = "raise"
    THEN [kind |-> "append", record |-> ErrorRecord(title, "TypeError"),
          calls |-> <<[item |-> i, generative |-> s.calls, classification |-> <<>>]>>]
    ELSE IF text.kind # "str"
    THEN [kind |-> "append", record |-> ErrorRecord(title, "AttributeError"),
          calls |-> <<[item |-> i, generative |-> s.calls, classification |-> a.calls]>>]
    ELSE [kind |-> "append",
          record |-> ResultRecord(title, s.ret, a.ret, Len(Split(text.chars))),
          calls |-> <<[item |-> i, generative |-> s.calls, classification |-> a.calls]>>]

\* lines 135-150 for an article that is an object with a 'text'
ProcessText(text, title, cleaned_text, i, summarizer, classifier, out) ==
    ArticleRecord(text, title, i,
                  summarize(cleaned_text, DefaultMaxLength, DefaultMinLength,
                            summarizer, out.gen, out.tokOK),
                  analyze(cleaned_text, classifier, out.cls))

\* lines 127-156, one turn of the loop: the article is skipped (line 129), a
\* record is appended (141 or 153), or the handler at 152 itself raises (line 154,
\* article.get of what is no object) and the exception leaves the loop.
\* out: what the collaborators answer should the article reach them
ProcessArticle(article, i, summarizer, classifier, out) ==
    IF KeyIn(article) = "no"
    THEN [kind |-> "skip", calls |-> <<>>]
    ELSE IF article.kind # "dict"
    THEN [kind |-> "abort", error |-> "AttributeError", calls |-> <<>>]
    ELSE CHOOSE r \in {ProcessText(article.text, GetTitle(article, i), cleaned_text, i,
                                   summarizer, classifier, out) :
                          cleaned_text \in {clean_text(article.text)}} : TRUE

\* what one turn r of the loop makes of acc, [aborted, error, results, calls]
LoopStep(acc, r) ==
    CASE r.kind = "abort" ->
            [aborted |-> TRUE, error |-> r.error, results |-> acc.results, calls |-> acc.calls]
      [] r.kind = "skip" -> acc
      [] OTHER ->
            [aborted |-> FALSE, error |-> "", results |-> Append(acc.results, r.record),
             calls |-> acc.calls \o r.calls]

RECURSIVE ArticlesFrom(_, _, _, _, _, _)
\* lines 126-156: the loop from article i on, left at the first turn that raises
ArticlesFrom(articles, summarizer, classifier, outs, i, acc) ==
    IF i > Len(articles) \/ acc.aborted THEN acc
    ELSE ArticlesFrom(articles, summarizer, classifier, outs, i + 1,
                      LoopStep(acc, ProcessArticle(articles[i], i, summarizer, classifier,
                                                   outs[i])))

\* the request body: without 'articles' (or empty, or none), with 'articles' that
\* cannot be iterated, or with a list of articles
NoArticles == [has_articles |-> FALSE, is_list |-> FALSE, articles |-> <<>>]
NotAList == [has_articles |-> TRUE, is_list |-> FALSE, articles |-> <<>>]
ArticleList(articles) == [has_articles |-> TRUE, is_list |-> TRUE, articles |-> articles]

\* lines 158-162
BatchResponse(results, articles) ==
    [kind |-> "response", status |-> 200, processed_count |-> Len(results),
     total_count |-> Len(articles), results |-> results]

\* lines 121 and 165
ErrorResponse(status, error) == [kind |-> "response", status |-> status, error |-> error]

\* lines 158-165: the response after the loop
LoopResponse(r, articles) ==
    IF r.aborted
    THEN [ret |-> ErrorResponse(500, r.error), calls |-> r.calls]
    ELSE [ret |-> BatchResponse(r.results, articles), calls |-> r.calls]

\* lines 114-165, batch_process: [ret: the response, calls: the collaborator calls]
batch_process(data, summarizer, classifier, outs) ==
    IF ~data.has_articles
    THEN [ret |-> ErrorResponse(400, "Articles array is required"), calls |-> <<>>]
    ELSE IF ~data.is_list
    THEN [ret |-> ErrorResponse(500, "TypeError"), calls |-> <<>>]
    ELSE LoopResponse(ArticlesFrom(data.articles, summarizer, classifier, outs, 1,
                                   [aborted |-> FALSE, error |-> "", results |-> <<>>,
                                    calls |-> <<>>]),
                      data.articles)

(***************************************************************************)
(* The inputs the calls are made with                                      *)
(***************************************************************************)
MaxSentences == 4
MaxBatch == 3
MaxFragments == 3

SeqsUpTo(S, n) == UNION {[1..k -> S] : k \in 0..n}

\* a word of wl letters, a sentence of wc such words and a full stop
Word(wl) == [i \in 1..wl |-> "a"]
Sentence(wc, wl) == Join([i \in 1..wc |-> Word(wl)], <<" ">>) \o <<".">>

\* the text of the sentences with shape[k] words each, pad on both ends
MakeText(shape, wl, pad) ==
    pad \o Join([k \in 1..Len(shape) |-> Sentence(shape[k], wl)], <<" ">>) \o pad

WordLengths == {1, 12}
SentenceWordCounts == {1, 4}
Paddings == {<<>>, <<" ">>}

\* what is not a non-empty string: None, "", and the numbers 7 and 0
OtherValues == {NoneV, Str(<<>>), IntV(7), IntV(0)}

\* n words, the last unlike the others
LongText(n) == Join([i \in 1..n |-> IF i = n THEN <<"h">> ELSE <<"a">>], <<" ">>)

\* texts of exactly as many words as a collaborator is given at most, and of one more
TextsAround(cap) == {Str(LongText(cap)), Str(LongText(cap + 1))}

SummarizeTexts ==
    OtherValues \cup TextsAround(SummaryMaxWords) \cup
    {Str(MakeText(shape, wl, pad)) :
        shape \in SeqsUpTo(SentenceWordCounts, MaxSentences), wl \in WordLengths, pad \in Paddings}

MaxLengths == {2, DefaultMaxSentences, DefaultMaxLength}
MinLengths == {1, DefaultMinLength}

\* what the generative model does when called: a summary (to be stripped), an
\* exception, or a result that result[0]['summary_text'].strip() cannot read
GenOutcomes ==
    {[kind |-> "ok", chars |-> <<" ", "s", ".", " ">>],
     [kind |-> "raise", chars |-> <<>>],
     [kind |-> "malformed", chars |-> <<>>]}

AnalyzeTexts ==
    OtherValues \cup TextsAround(SentimentMaxWords) \cup
    {Str(MakeText(shape, 1, pad)) : shape \in SeqsUpTo({1, 2}, 2), pad \in Paddings}

RawLabels == {"POSITIVE", "NEGATIVE", "positive", "negative", "neutral", "LABEL_1"}
RawScores == {-500, 0, 99, 100, 101, 500, 1000}

\* what the classifier does when called: a label and a confidence, an exception,
\* or a result that lines 284-303 cannot read (no [0], a missing key, a label that
\* is no string, a confidence that cannot be negated or compared)
ClsOutcomes ==
    [kind : {"ok"}, label : RawLabels, score : RawScores] \cup
    {[kind |-> "raise", label |-> "", score |-> 0],
     [kind |-> "malformed", label |-> "", score |-> 0]}

BatchTexts == {NoneV, Str(<<"a">>), Str(<<"a", " ", "a">>)}

BatchOutcomes ==
    {[kind |-> "ok", label |-> "POSITIVE", score |-> 1000],
     [kind |-> "ok", label |-> "negative", score |-> 500],
     [kind |-> "raise", label |-> "", score |-> 0]}

Fragments ==
    {<<"a">>, <<" ">>, <<"#">>, <<"<">>, <<">">>, <<"@">>, HttpPrefix,
     <<"h", "t">>, <<"t", "p", ":", "/", "/">>, <<"<", "a", ">">>}

KeywordWords ==
    {<<"h", "a", "s">>, <<"h", "a", "t">>, <<"H", "a", "t">>, <<"a", "t">>, <<"p", "a">>,
     <<"t", "a", "p">>}
MaxKeywordWords == 3

KeywordTexts ==
    OtherValues \cup
    {Str(Join(words, <<" ">>)) : words \in SeqsUpTo(KeywordWords, MaxKeywordWords)}

MaxKeywordsInputs == {1, 2, DefaultMaxKeywords}

SentenceTexts ==
    OtherValues \cup
    {Str(MakeText(shape, wl, pad)) :
        shape \in SeqsUpTo(SentenceWordCounts, 2), wl \in WordLengths, pad \in Paddings}

Concat(parts) == Join(parts, <<>>)

CleanTexts ==
    OtherValues \cup {Str(Concat(parts)) : parts \in SeqsUpTo(Fragments, MaxFragments)}

MaxArticles == 3

\* a text of ten words, the least that reaches the generative model
TenWords == MakeText(<<10>>, 1, <<>>)

AllAnswer ==
    [gen |-> [kind |-> "ok", chars |-> <<" ", "s", ".", " ">>], tokOK |-> TRUE,
     cls |-> [kind |-> "ok", label |-> "POSITIVE", score |-> 1000]]
AllFail ==
    [gen |-> [kind |-> "raise", chars |-> <<>>], tokOK |-> FALSE,
     cls |-> [kind |-> "raise", label |-> "", score |-> 0]]

\* the entries of an articles array, each with what the collaborators answer: an
\* article with text and title, one with text only whose collaborators fail, one
\* with no text, one whose text is a number, and entries that are no objects: a
\* number, a string without and a string with 'text' in it
ArticleItems ==
    {<<Dict(TRUE, Str(TenWords), TRUE, Str(<<"t">>)), AllAnswer>>,
     <<Dict(TRUE, Str(TenWords), FALSE, NoneV), AllFail>>,
     <<Dict(FALSE, NoneV, TRUE, Str(<<"t">>)), AllAnswer>>,
     <<Dict(TRUE, IntV(7), TRUE, Str(<<"t">>)), AllAnswer>>,
     <<NonDict(IntV(7)), AllAnswer>>,
     <<NonDict(Str(<<"a">>)), AllAnswer>>,
     <<NonDict(Str(TextKey)), AllAnswer>>}

(***************************************************************************)
(* The service: the handles set at construction, and one call at a time    *)
(***************************************************************************)
Handles == {"None", "loaded"}

NoArgs == [text |-> NoneV]

\* what loading a model does: it returns the model or raises
LoadOutcomes == {"ok", "raise"}

\* what spacy.load does: it returns the toolkit, raises OSError (the model is not
\* installed) or raises another exception
SpacyOutcomes == {"ok", "OSError", "ValueError"}

Attempt(name, outcome) ==
    [stage |-> name, outcome |-> IF outcome = "ok" THEN "returned" ELSE "raised"]

\* lines 17-51, TextPreprocessor.__init__: nlp = None, then _setup_nltk (the
\* stopword corpus read at line 40, outside every try), then _setup_spacy, whose
\* handler at line 49 catches OSError only
TextPreprocessor_init(corpus, spacy) ==
    IF corpus # "ok"
    THEN [raised |-> TRUE, nlp |-> "None", stop_words |-> {},
          stages |-> <<Attempt("stopwords", corpus)>>]
    ELSE [raised |-> spacy \notin {"ok", "OSError"},
          nlp |-> IF spacy = "ok" THEN "loaded" ELSE "None",
          stop_words |-> EnglishStopwords,
          stages |-> <<Attempt("stopwords", corpus), Attempt("toolkit", spacy)>>]

\* lines 137-161, NewsSummarizer._load_model: DistilBART, then the default model,
\* then None
NewsSummarizer_load_model(preferred, default) ==
    IF preferred = "ok"
    THEN [handle |-> "loaded", stages |-> <<Attempt("summarizer preferred", preferred)>>]
    ELSE [handle |-> IF default = "ok" THEN "loaded" ELSE "None",
          stages |-> <<Attempt("summarizer preferred", preferred),
                       Attempt("summarizer default", default)>>]

\* lines 231-252, SentimentAnalyzer._load_model: the named model, then the
\* default model, then None
SentimentAnalyzer_load_model(named, default) ==
    IF named = "ok"
    THEN [handle |-> "loaded", stages |-> <<Attempt("sentiment named", named)>>]
    ELSE [handle |-> IF default = "ok" THEN "loaded" ELSE "None",
          stages |-> <<Attempt("sentiment named", named),
                       Attempt("sentiment default", default)>>]

\* app.py lines 14-16: the three constructors in turn; the first that raises ends
\* the process before the others run
Construct(p, s, a) ==
    IF p.raised
    THEN [raised |-> TRUE, nlp |-> "None", stop_words |-> {}, summarizer |-> "None",
          sentiment |-> "None", stages |-> p.stages]
    ELSE [raised |-> FALSE, nlp |-> p.nlp, stop_words |-> p.stop_words,
          summarizer |-> s.handle, sentiment |-> a.handle,
          stages |-> p.stages \o s.stages \o a.stages]

\* the service as construction leaves it, whatever the loads did
Init ==
    \E corpus \in LoadOutcomes, spacy \in SpacyOutcomes,
       preferred \in LoadOutcomes, default \in LoadOutcomes,
       named \in LoadOutcomes, fallback \in LoadOutcomes :
        \E c \in {Construct(TextPreprocessor_init(corpus, spacy),
                            NewsSummarizer_load_model(preferred, default),
                            SentimentAnalyzer_load_model(named, fallback))} :
            /\ summarizer_pipeline = c.summarizer
            /\ sentiment_pipeline = c.sentiment
            /\ nlp = c.nlp
            /\ stop_words = c.stop_words
            /\ op = "construct"
            /\ args = [corpus |-> corpus, spacy |-> spacy,
                       summarizer |-> <<preferred, default>>,
                       sentiment |-> <<named, fallback>>]
            /\ ret = IF c.raised THEN Raised ELSE NoneV
            /\ stages = c.stages
            /\ collab = <<>>

\* KeepHandles of an object whose failed call drops its model
DropHandles ==
    /\ summarizer_pipeline' = "None"
    /\ UNCHANGED <<sentiment_pipeline, nlp, stop_words>>

\* no method assigns an attribute of its object (lines 53-125, 163-221, 254-335
\* hold no assignment to self.*)
KeepHandles == UNCHANGED <<summarizer_pipeline, sentiment_pipeline, nlp, stop_words>>

CleanText ==
    /\ op = "idle"
    /\ \E text \in CleanTexts :
        /\ op' = "clean_text"
        /\ args' = [text |-> text]
        /\ ret' = clean_text(text)
        /\ stages' = <<>>
        /\ collab' = <<>>
    /\ KeepHandles

Summarize ==
    /\ op = "idle"
    /\ \E text \in SummarizeTexts, max_length \in MaxLengths, min_length \in MinLengths,
          gen \in GenOutcomes, tokOK \in BOOLEAN :
        LET r == summarize(text, max_length, min_length, summarizer_pipeline, gen, tokOK)
        IN  /\ op' = "summarize"
            /\ args' = [text |-> text, max_length |-> max_length, min_length |-> min_length]
            /\ ret' = r.ret
            /\ stages' = r.stages
            /\ collab' = r.calls
    /\ KeepHandles

ExtractKeywords ==
    /\ op = "idle"
    /\ \E text \in KeywordTexts, max_keywords \in MaxKeywordsInputs, tagged \in BOOLEAN :
        /\ op' = "extract_keywords"
        /\ args' = [text |-> text, max_keywords |-> max_keywords]
        /\ ret' = extract_keywords(text, max_keywords, nlp, tagged)
        /\ stages' = <<>>
        /\ collab' = <<>>
    /\ KeepHandles

ExtractSentences ==
    /\ op = "idle"
    /\ \E text \in SentenceTexts, tokOK \in BOOLEAN :
        LET r == extract_sentences(text, nlp, tokOK)
        IN  /\ op' = "extract_sentences"
            /\ args' = [text |-> text]
            /\ ret' = r.ret
            /\ stages' = <<>>
            /\ collab' = r.calls
    /\ KeepHandles

Analyze ==
    /\ op = "idle"
    /\ \E text \in AnalyzeTexts, out \in ClsOutcomes :
        LET r == analyze(text, sentiment_pipeline, out)
        IN  /\ op' = "analyze"
            /\ args' = [text |-> text]
            /\ ret' = r.ret
            /\ stages' = <<>>
            /\ collab' = r.calls
    /\ KeepHandles

BatchAnalyze ==
    /\ op = "idle"
    /\ \E items \in SeqsUpTo(BatchTexts \X BatchOutcomes, MaxBatch) :
        LET texts == [i \in 1..Len(items) |-> items[i][1]]
            outs == [i \in 1..Len(items) |-> items[i][2]]
            r == batch_analyze(texts, sentiment_pipeline, outs)
        IN  /\ op' = "batch_analyze"
            /\ args' = [texts |-> texts]
            /\ ret' = r.results
            /\ stages' = <<>>
            /\ collab' = r.calls
    /\ KeepHandles

BatchProcess ==
    /\ op = "idle"
    /\ \E body \in {"none", "number", "list"}, items \in SeqsUpTo(ArticleItems, MaxArticles) :
        /\ body # "list" => items = <<>>
        /\ LET data == CASE body = "none" -> NoArticles
                         [] body = "number" -> NotAList
                         [] OTHER -> ArticleList([i \in 1..Len(items) |-> items[i][1]])
               outs == [i \in 1..Len(items) |-> items[i][2]]
           IN  /\ op' = "batch_process"
               /\ args' = [data |-> data]
               /\ \E r \in {batch_process(data, summarizer_pipeline, sentiment_pipeline,
                                           outs)} :
                    ret' = r.ret /\ collab' = r.calls
               /\ stages' = <<>>
    /\ KeepHandles

\* the caller has the result (or construction is over); the next request starts
\* from the handles alone.  A constructor that raised has ended the process.
Return ==
    /\ op # "idle"
    /\ ~(op = "construct" /\ ret = Raised)
    /\ op' = "idle"
    /\ args' = NoArgs
    /\ ret' = NoneV
    /\ stages' = <<>>
    /\ collab' = <<>>
    /\ UNCHANGED <<summarizer_pipeline, sentiment_pipeline, nlp, stop_words>>

Next ==
    \/ CleanText
    \/ ExtractKeywords
    \/ ExtractSentences
    \/ Summarize
    \/ Analyze
    \/ BatchAnalyze
    \/ BatchProcess
    \/ Return

Spec == Init /\ [][Next]_vars

(***************************************************************************)
(* Properties                                                              *)
(***************************************************************************)
IsString(v) == v.kind = "str"
WordCount(v) == Len(Split(v.chars))
NeutralResult == [kind |-> "sentiment", label |-> "NEUTRAL", score |-> 500, sentiment_score |-> 0]
StageRan(name) == \E k \in 1..Len(stages) : stages[k].stage = name
StageReturned(name) ==
    \E k \in 1..Len(stages) : stages[k] = [stage |-> name, outcome |-> "returned"]

\* C1: every result of analyze has the label its signed score s decides: POSITIVE
\* iff s > 0.1, NEGATIVE iff s < -0.1, NEUTRAL otherwise, whatever label and
\* confidence the classifier returned; and a NEUTRAL result has confidence 0.5.
LabelDerivedFromSignedScore ==
    op = "analyze" =>
        /\ ret.label \in {"POSITIVE", "NEGATIVE", "NEUTRAL"}
        /\ ret.label = "POSITIVE" <=> ret.sentiment_score > 100
        /\ ret.label = "NEGATIVE" <=> ret.sentiment_score < -100
        /\ ret.label = "NEUTRAL" => ret.score = 500

\* the classifier said POSITIVE with a confidence at the threshold, and the result is NEUTRAL at 0.5
LabelDerivedFromSignedScoreWitness ==
    /\ op = "analyze"
    /\ collab # <<>>
    /\ collab[1].out.kind = "ok"
    /\ collab[1].out.label = "POSITIVE"
    /\ collab[1].out.score = 100
    /\ ret = [kind |-> "sentiment", label |-> "NEUTRAL", score |-> 500, sentiment_score |-> 100]

\* C2: analyze returns exactly the NEUTRAL default when the text is empty or None,
\* when no classifier is loaded, when the trimmed text has fewer than 2 words (the
\* classifier is not invoked in these three cases) and when the classifier call or
\* the reading of its result fails; and analyze never raises.
NeutralDefaultCases ==
    op = "analyze" =>
        /\ ret.kind # "raise"
        /\ \/ Falsy(args.text)
           \/ sentiment_pipeline = "None"
           \/ IsString(args.text) /\ Len(Split(Strip(args.text.chars))) < 2
           => ret = NeutralResult /\ collab = <<>>
        /\ collab # <<>> /\ collab[1].out.kind # "ok" => ret = NeutralResult

\* a text of two words or more, the classifier loaded, and its call failed
NeutralDefaultCasesWitness ==
    /\ op = "analyze"
    /\ sentiment_pipeline = "loaded"
    /\ IsString(args.text)
    /\ WordCount(args.text) >= 2
    /\ collab # <<>>
    /\ collab[1].out.kind = "raise"
    /\ ret = NeutralResult

\* the classifier's answer for item i of the batch, a failure when it was not called
BatchOutcomeOf(i) ==
    LET made == {k \in 1..Len(collab) : collab[k].item = i}
    IN  IF made = {} THEN [kind |-> "raise", label |-> "", score |-> 0]
        ELSE collab[CHOOSE k \in made : TRUE].out

\* C3: batch_analyze returns as many results as texts, the i-th being what analyze
\* gives for the i-th text; an item whose classifier call fails gets the NEUTRAL
\* default, and the other items keep their results and their places.
BatchKeepsEveryItemInPlace ==
    op = "batch_analyze" =>
        /\ Len(ret) = Len(args.texts)
        /\ \A i \in 1..Len(args.texts) :
            /\ Cardinality({k \in 1..Len(collab) : collab[k].item = i}) <= 1
            /\ ret[i] = analyze(args.texts[i], sentiment_pipeline, BatchOutcomeOf(i)).ret
            /\ (\E k \in 1..Len(collab) : collab[k].item = i /\ collab[k].out.kind # "ok")
                => ret[i] = NeutralResult

\* three items, the middle one's classifier call failed, the outer two classified
BatchKeepsEveryItemInPlaceWitness ==
    /\ op = "batch_analyze"
    /\ Len(args.texts) = 3
    /\ ret[1].label = "POSITIVE"
    /\ BatchOutcomeOf(2).kind = "raise"
    /\ Len(collab) = 3
    /\ ret[2] = NeutralResult
    /\ ret[3].label = "NEGATIVE"

\* C4 as stated: every text of fewer than 10 words is returned trimmed, and no
\* summarization is attempted.
ShortTextReturnedTrimmed ==
    op = "summarize" /\ IsString(args.text) /\ WordCount(args.text) < 10 =>
        /\ ret = Str(Strip(args.text.chars))
        /\ collab = <<>>
        /\ ~StageRan("extractive")

\* C4, amended: a non-empty text of fewer than 10 words is returned trimmed when a
\* generative model is loaded, and no summarization is attempted.
ShortTextReturnedTrimmedWhenLoaded ==
    /\ op = "summarize"
    /\ IsString(args.text)
    /\ args.text.chars # <<>>
    /\ WordCount(args.text) < 10
    /\ summarizer_pipeline = "loaded"
    => /\ ret = Str(Strip(args.text.chars))
       /\ collab = <<>>
       /\ ~StageRan("extractive")

\* a padded text of nine words comes back without its padding
ShortTextReturnedTrimmedWitness ==
    /\ op = "summarize"
    /\ IsString(args.text)
    /\ WordCount(args.text) = 9
    /\ summarizer_pipeline = "loaded"
    /\ ret = Str(Strip(args.text.chars))
    /\ ret # args.text

\* C5: with an empty text or no generative model loaded, summarize returns
\* "Unable to generate summary." and runs no stage and invokes no collaborator,
\* whatever max_length and min_length are.
SentinelWhenEmptyOrUnloaded ==
    op = "summarize" /\ (Falsy(args.text) \/ summarizer_pipeline = "None") =>
        /\ ret = Str(Sentinel)
        /\ stages = <<>>
        /\ collab = <<>>

\* a text long enough to summarize, no model loaded, other than default lengths
SentinelWhenEmptyOrUnloadedWitness ==
    /\ op = "summarize"
    /\ summarizer_pipeline = "None"
    /\ IsString(args.text)
    /\ WordCount(args.text) >= 10
    /\ args.max_length # 150
    /\ args.min_length # 50
    /\ ret = Str(Sentinel)

\* C6: when the generative model fails in a call with the default arguments, the
\* extractive fallback returns the text unchanged if it has at most 3 sentences,
\* and otherwise the 3 best-scored sentences, best first, joined by single spaces.
ExtractiveFallbackKeepsThree ==
    /\ op = "summarize"
    /\ args.max_length = 150
    /\ args.min_length = 50
    /\ StageReturned("extractive")
    => LET sentences == sent_tokenize(args.text.chars)
       IN  IF Len(sentences) <= 3
           THEN ret = args.text
           ELSE /\ ret = Str(Join(TopSentences(sentences, 3), <<" ">>))
                /\ Len(sent_tokenize(ret.chars)) = 3

\* C7: the stages of one summarize call form a strict fallback chain: the
\* extractive stage runs only after the primary stage raised (for a string text:
\* after the generative model was invoked and it, or the reading of its result,
\* failed), the truncation stage (the first 200 characters and "..." for a longer
\* text, else the text) only after the extractive stage raised, no stage runs
\* after one that returned, and the summary is the result of the one stage that
\* returned.
StrictFallbackChain ==
    op = "summarize" =>
        /\ \A k \in 1..Len(stages) :
            /\ stages[k].outcome = "returned" => k = Len(stages)
            /\ stages[k].stage = "primary" => k = 1
            /\ stages[k].stage = "extractive" =>
                /\ k = 2
                /\ stages[1] = [stage |-> "primary", outcome |-> "raised"]
                /\ IsString(args.text) => Len(collab) = 1 /\ collab[1].out.kind # "ok"
            /\ stages[k].stage = "truncation" =>
                /\ k = 3
                /\ stages[2] = [stage |-> "extractive", outcome |-> "raised"]
        /\ Len(collab) <= 1
        /\ ret.kind # "raise" =>
            /\ Cardinality({k \in 1..Len(stages) : stages[k].outcome = "returned"}) <= 1
            /\ stages = <<>> => ret = Str(Sentinel)
            /\ StageReturned("primary") /\ collab # <<>> => ret = Str(Strip(collab[1].out.chars))
            /\ StageReturned("truncation") =>
                ret = Str(IF Len(args.text.chars) > 200
                          THEN SubSeq(args.text.chars, 1, 200) \o <<".", ".", ".">>
                          ELSE args.text.chars)

\* the model failed, then sent_tokenize, and a text of more than 200 characters was cut
StrictFallbackChainWitness ==
    /\ op = "summarize"
    /\ Len(stages) = 3
    /\ Len(collab) = 1
    /\ stages[3] = [stage |-> "truncation", outcome |-> "returned"]
    /\ Len(args.text.chars) > 200
    /\ Len(ret.chars) = 203

BadInput(v) == ~IsString(v) \/ Falsy(v)

\* C8: for an input that is no string, or empty, or too short, no method raises;
\* each returns its default: clean_text "", extract_keywords and extract_sentences
\* [], summarize the sentinel or the trimmed text, analyze and batch_analyze the
\* NEUTRAL result.  (extract_sentences with sent_tokenize itself failing is left out.)
InputErrorsResolveToDefaults ==
    /\ op = "clean_text" /\ BadInput(args.text) => ret = Str(<<>>)
    /\ op = "extract_keywords" /\ BadInput(args.text) => ret = <<>>
    /\ op = "extract_sentences" /\ BadInput(args.text)
        /\ (collab = <<>> \/ collab[1].out.kind = "ok") => ret = <<>>
    /\ op = "summarize" /\ BadInput(args.text) => ret = Str(Sentinel)
    /\ op = "summarize" /\ ~BadInput(args.text) /\ WordCount(args.text) < 10 =>
        ret \in {Str(Sentinel), Str(Strip(args.text.chars))}
    /\ op = "analyze" /\ (BadInput(args.text) \/ WordCount(args.text) < 2) => ret = NeutralResult
    /\ op = "batch_analyze" =>
        /\ Len(ret) = Len(args.texts)
        /\ \A i \in 1..Len(ret) :
            BadInput(args.texts[i]) \/ WordCount(args.texts[i]) < 2 => ret[i] = NeutralResult

\* C9: clean_text is idempotent: cleaning its own output changes nothing.
CleanTextIdempotent ==
    op = "clean_text" => clean_text(ret) = ret

\* `<`, then a character other than `>`, ..., then `>`
HasTag(s) ==
    \E i \in 1..Len(s) : \E j \in (i + 2)..Len(s) :
        /\ s[i] = "<"
        /\ s[j] = ">"
        /\ \A k \in (i + 1)..(j - 1) : s[k] # ">"

HasUrlPrefix(s) ==
    \/ Contains(s, <<"h", "t", "t", "p", ":", "/", "/">>)
    \/ Contains(s, <<"h", "t", "t", "p", "s", ":", "/", "/">>)

\* C10: the output of clean_text holds no tag-shaped substring <...> and no
\* http:// or https://, also when a removal joins what stood around it.
NoTagNoUrlInCleanText ==
    op = "clean_text" => ~HasTag(ret.chars) /\ ~HasUrlPrefix(ret.chars)

\* a text whose tag removal joins "ht" and "tp://" into a URL prefix that the URL
\* pattern does not remove (nothing follows it), or whose URL prefix survives the
\* removals up to the character filter
NoTagNoUrlInCleanTextWitness ==
    /\ op = "clean_text"
    /\ IsString(args.text)
    /\ HasUrlPrefix(CollapseWhitespace(RemoveEmails(RemoveUrls(RemoveTags(args.text.chars)))))
    /\ HasTag(args.text.chars)
    /\ ret.chars # <<>>

\* no two whitespace characters in a row, none at either end
WhitespaceCollapsed(s) ==
    /\ \A i \in 1..(Len(s) - 1) : ~(IsSpace(s[i]) /\ IsSpace(s[i + 1]))
    /\ s # <<>> => ~IsSpace(s[1]) /\ ~IsSpace(s[Len(s)])

\* C11: for every input string the output of clean_text has collapsed whitespace
\* (no run of two or more whitespace characters, none leading or trailing) and
\* holds only allowed characters: word characters, whitespace and . , ! ? ; : -
CleanTextCollapsedAndAllowed ==
    op = "clean_text" /\ IsString(args.text) =>
        /\ WhitespaceCollapsed(ret.chars)
        /\ \A i \in 1..Len(ret.chars) : ret.chars[i] \in AllowedChars

\* the lowercased whitespace-separated tokens of the cleaned text that are no
\* stopword and have more than two characters, in text order
FallbackTokens(text) ==
    LET toks == Split(Lower(clean_text(text).chars))
    IN  SelectSeq(toks, LAMBDA w : w \notin stop_words /\ Len(w) > 2)

Occurrences(toks, w) == Cardinality({i \in 1..Len(toks) : toks[i] = w})

FirstOccurrence(toks, w) == CHOOSE i \in 1..Len(toks) : toks[i] = w /\ \A j \in 1..(i - 1) : toks[j] # w

\* w comes before v in the descending-count ranking with ties in first-seen order
RanksBefore(toks, w, v) ==
    \/ Occurrences(toks, w) > Occurrences(toks, v)
    \/ /\ Occurrences(toks, w) = Occurrences(toks, v)
       /\ FirstOccurrence(toks, w) < FirstOccurrence(toks, v)

\* C12: with the annotation toolkit unavailable, extract_keywords(text, maxKeywords)
\* is the first maxKeywords entries of the descending-count ranking (ties in
\* first-seen order) of the kept tokens: at most maxKeywords entries, no
\* duplicate, no stopword, nothing of two characters or fewer, nothing outside the
\* text, each entry ranked before the next and before every token left out; and
\* it is empty for an empty input.
KeywordsFallbackRanking ==
    op = "extract_keywords" /\ nlp = "None" =>
        LET toks == FallbackTokens(args.text)
            kept == {toks[i] : i \in 1..Len(toks)}
        IN  /\ Falsy(args.text) => ret = <<>>
            /\ Len(ret) = Min(args.max_keywords, Cardinality(kept))
            /\ \A i \in 1..Len(ret) :
                /\ ret[i] \in kept
                /\ ret[i] \notin stop_words
                /\ \A j \in (i + 1)..Len(ret) : RanksBefore(toks, ret[i], ret[j])
                /\ \A w \in kept :
                    (\A j \in 1..Len(ret) : ret[j] # w) => RanksBefore(toks, ret[i], w)

\* more kept tokens than asked for, and the count put a later token in front of
\* the first one
KeywordsFallbackRankingWitness ==
    /\ op = "extract_keywords"
    /\ nlp = "None"
    /\ IsString(args.text)
    /\ LET toks == FallbackTokens(args.text)
       IN  /\ Cardinality({toks[i] : i \in 1..Len(toks)}) > args.max_keywords
           /\ Len(ret) = args.max_keywords
           /\ ret[1] # toks[1]

IsBatch == op = "batch_process" /\ args.data.is_list

\* an article that is an object with a 'text'
HasText(article) == article.kind = "dict" /\ article.has_text

\* C13: in batch_process a failure while processing one article stays with that
\* article, also for entries that are no objects or whose text is no string: the
\* batch is answered (200), an article whose text is no string has an error
\* record with its title and a message, and every article with a string text
\* still has its full record.
BatchFailureIsolated ==
    IsBatch =>
        /\ ret.status = 200
        /\ \A i \in 1..Len(args.data.articles) :
            LET article == args.data.articles[i]
            IN  HasText(article) =>
                    \E k \in 1..Len(ret.results) :
                        /\ ret.results[k].title = GetTitle(article, i)
                        /\ IF IsString(article.text)
                           THEN ret.results[k].kind = "result"
                           ELSE ret.results[k].kind = "error" /\ ret.results[k].error # ""

\* the articles that line 129 skips, and the others, in input order
SkippedArticles(articles) == {i \in 1..Len(articles) : KeyIn(articles[i]) = "no"}

Indices(articles) == [i \in 1..Len(articles) |-> i]

KeptArticles(articles) ==
    SelectSeq(Indices(articles), LAMBDA i : i \notin SkippedArticles(articles))

\* C14: every batch request is answered with the per-article outcomes in input
\* order, each a full record or an error record, and with counts such that
\* processed_count + skipped_count = total_count, total_count being the number of
\* articles submitted and skipped_count the number of articles without 'text'; also
\* when some articles have no 'text' and when some fail.
BatchCountsAndOrder ==
    IsBatch =>
        /\ ret.status = 200
        /\ LET articles == args.data.articles
               kept == KeptArticles(articles)
           IN  /\ ret.total_count = Len(articles)
               /\ ret.processed_count + Cardinality(SkippedArticles(articles))
                    = ret.total_count
               /\ ret.processed_count = Len(ret.results)
               /\ Len(ret.results) = Len(kept)
               /\ \A k \in 1..Len(ret.results) :
                    /\ ret.results[k].kind \in {"result", "error"}
                    /\ articles[kept[k]].kind = "dict" =>
                        ret.results[k].title = GetTitle(articles[kept[k]], kept[k])

\* input is the first cap words of trimmed when trimmed has more, trimmed otherwise
CappedTo(input, trimmed, cap) ==
    /\ Len(Split(input)) <= cap
    /\ IF Len(Split(trimmed)) > cap
       THEN Split(input) = SubSeq(Split(trimmed), 1, cap)
       ELSE input = trimmed

\* C15: whenever summarize invokes the generative collaborator the text passed has
\* at most 1024 words and is the first 1024 words of the trimmed input when that
\* has more (the trimmed input otherwise); whenever analyze invokes the
\* classification collaborator, the same with 512.
CollaboratorInputCapped ==
    /\ op = "summarize" =>
        \A k \in 1..Len(collab) : CappedTo(collab[k].input, Strip(args.text.chars), 1024)
    /\ op = "analyze" =>
        \A k \in 1..Len(collab) : CappedTo(collab[k].input, Strip(args.text.chars), 512)

\* the generative collaborator was invoked for a text of 1025 words, and was given
\* 1024 of them, the last (unlike the others) not among them
CollaboratorInputCappedWitness ==
    /\ op = "summarize"
    /\ Len(collab) = 1
    /\ WordCount(args.text) = 1025
    /\ Len(Split(collab[1].input)) = 1024
    /\ \A k \in 1..1024 : Split(collab[1].input)[k] = <<"a">>

\* a component whose collaborator is unavailable takes its unavailable branch:
\* summarize answers the sentinel and analyze the NEUTRAL result without invoking
\* anything, extract_keywords ranks the plain tokens, extract_sentences asks
\* sent_tokenize
UnavailableBranchTaken ==
    /\ op = "summarize" /\ summarizer_pipeline = "None" =>
        collab = <<>> /\ stages = <<>> /\ ret = Str(Sentinel)
    /\ op = "analyze" /\ sentiment_pipeline = "None" =>
        collab = <<>> /\ ret = NeutralResult
    /\ op = "batch_analyze" /\ sentiment_pipeline = "None" =>
        collab = <<>> /\ \A i \in 1..Len(ret) : ret[i] = NeutralResult
    /\ op = "extract_keywords" /\ nlp = "None" =>
        Len(ret) = Min(args.max_keywords,
                       Cardinality({FallbackTokens(args.text)[i] :
                                       i \in 1..Len(FallbackTokens(args.text))}))
    /\ op = "extract_sentences" /\ nlp = "None" /\ ~Falsy(args.text) => Len(collab) = 1

\* C16: after construction no call, succeeding or failing, changes a collaborator
\* handle or the stopword set: what is unavailable stays unavailable and its
\* component takes the unavailable branch in every call, and what is available is
\* not dropped by a failed invocation.
HandlesFixedAfterConstruction ==
    /\ []UnavailableBranchTaken
    /\ [][/\ summarizer_pipeline' = summarizer_pipeline
          /\ sentiment_pipeline' = sentiment_pipeline
          /\ nlp' = nlp
          /\ stop_words' = stop_words]_vars

\* the generative model was invoked and failed, and the handle is still loaded
HandlesFixedAfterConstructionWitness ==
    /\ op = "summarize"
    /\ Len(collab) = 1
    /\ collab[1].out.kind = "raise"
    /\ summarizer_pipeline = "loaded"
    /\ sentiment_pipeline = "None"
    /\ stop_words = EnglishStopwords

\* C17: whatever error loading a model or the annotation toolkit raises (the
\* stopword corpus being there), construction completes without raising: the
\* summarizer and the sentiment analyzer each try their first model, then the
\* default one, and only then leave the handle unavailable; the preprocessor
\* leaves the toolkit handle unavailable.
ConstructionFailSoft ==
    op = "construct" /\ args.corpus = "ok" =>
        /\ ret # Raised
        /\ nlp = (IF args.spacy = "ok" THEN "loaded" ELSE "None")
        /\ summarizer_pipeline = "None" <=> \A k \in 1..2 : args.summarizer[k] = "raise"
        /\ sentiment_pipeline = "None" <=> \A k \in 1..2 : args.sentiment[k] = "raise"
        /\ \A k \in 1..Len(stages) :
            /\ stages[k].stage \in {"summarizer default", "sentiment default"} =>
                k > 1 /\ stages[k - 1].outcome = "raised"
            /\ stages[k].stage = "summarizer default" =>
                stages[k - 1].stage = "summarizer preferred"
            /\ stages[k].stage = "sentiment default" =>
                stages[k - 1].stage = "sentiment named"

====
